---- MODULE Spec2Model ----
(***************************************************************************)
(* State-machine model of jupyter_kernel_executor/handlers.py:             *)
(* ExecuteCellWebSocketHandler, its process-wide ledger executing_cell,    *)
(* the document-wide save_lock and the coroutines mimic_post, mimic_get,   *)
(* execute and write_output.  Every action is one run of a coroutine from  *)
(* one suspension point (an await that can yield) to the next.             *)
(***************************************************************************)
EXTENDS Integers, Sequences, FiniteSets, TLC

\* ---------------------------------------------------------------- bounds
MaxRequests == 2      \* messages accepted over all connections
MaxCallbacks == 1     \* invocations of one client's registered callback
MaxPolls == 1         \* further get messages of a polling front end

\* ------------------------------------------------------------- constants
None == "None"        \* Python None for identifiers and flags
NoCount == 0          \* Python None for execution_count (both are falsy)

Conns == {"ws1", "ws2"}           \* handler instances (open websockets)
KernelManager == {"k1", "k2"}           \* kernels kernel_manager.get_kernel knows
KernelIds == {"k1", "k2", "k0"}         \* kernel ids a request may name
Paths == {"a.ipynb", "b.ipynb"}
CellIds == {"c1", "c2"}
BlockFlags == {"None", "True", "False"}   \* model.get('block')
OutputLists == {<< >>, <<"x">>}           \* result['outputs'], as texts
\* client.get_result() while the kernel runs, and what client.execute returns
PartialResults == [outputs : OutputLists, execution_count : {NoCount}]
FinalResults == [outputs : OutputLists, execution_count : {1}]
Results == PartialResults \cup FinalResults

Models == [kernel_id : KernelIds, path : Paths \cup {None},
           cell_id : CellIds \cup {None}, code : {None, "src"},
           not_write : BOOLEAN, block : BlockFlags]

Writers == Conns \X {"req", "cb"}  \* coroutines that can run write_output

VARIABLES
    executing_cell,   \* kernel id -> list of records (class attribute)
    save_lock,        \* set of writers holding the asyncio.Lock
    global_watcher,   \* handlers registered with the file watcher
    contents,         \* path -> list of notebook cells (contents manager)
    task,             \* per connection: the on_message coroutine
    client,           \* per connection: KernelWebsocketClient + callback
    wr,               \* per writer: position inside write_output
    response,         \* per connection: last message answered
    nreq,             \* messages accepted so far
    noid,             \* record objects allocated so far
    effects,          \* collaborator calls made by the last step
    applied           \* path -> cell -> last result write_output completed

vars == <<executing_cell, save_lock, global_watcher, contents, task, client,
          wr, response, nreq, noid, effects, applied>>

\* ------------------------------------------------------- pure functions
\* Python truthiness of model.get('block')
Truthy(flag) == flag = "True"

\* not self.kernel_manager.get_kernel(kernel_id)
NoSuchKernelSkipped(kernel_id) == FALSE

NoSuchKernel(kernel_id) == kernel_id \notin KernelManager

\* FileIDWrapper.index / get_path: path <-> stable document id
Index(path) ==
    CASE path = "a.ipynb" -> "d1"
      [] path = "b.ipynb" -> "d2"
      [] OTHER -> None

GetPath(document_id) ==
    CASE document_id = "d1" -> "a.ipynb"
      [] document_id = "d2" -> "b.ipynb"
      [] OTHER -> None

\* FileWatcher.add / remove
WatcherAdd(w, c) == w \cup {c}
WatcherRemove(w, c) == w \ {c}

\* ''.join([output.text for output in result['outputs']])
RECURSIVE Join(_)
Join(outputs) ==
    IF outputs = << >> THEN "" ELSE Head(outputs) \o Join(Tail(outputs))

\* get_record: the dict a fresh record is
GetRecord(document_id, cell_id) ==
    [document_id |-> document_id, cell_id |-> cell_id,
     output |-> "", execution_count |-> NoCount]

\* the dict value of a ledger record (oid is the Python object identity,
\* which dict equality does not see)
Value(rec) ==
    [document_id |-> rec.document_id, cell_id |-> rec.cell_id,
     output |-> rec.output, execution_count |-> rec.execution_count]

NewRecord(oid, document_id, cell_id) ==
    [oid |-> oid, document_id |-> document_id, cell_id |-> cell_id,
     output |-> "", execution_count |-> NoCount]

\* executing_cell.get(kernel_id, [])
Records(ec, kernel_id) ==
    IF kernel_id \in DOMAIN ec THEN ec[kernel_id] ELSE << >>

\* record in records  (list membership by dict equality)
InList(record, records) ==
    \E i \in DOMAIN records : Value(records[i]) = record

IsExecuting(ec, kernel_id, document_id, cell_id) ==
    InList(GetRecord(document_id, cell_id), Records(ec, kernel_id))

\* records.remove(record): drops the first element equal to record
FirstIndex(record, records) ==
    CHOOSE i \in DOMAIN records :
        /\ Value(records[i]) = record
        /\ \A j \in 1..(i - 1) : Value(records[j]) # record

RemoveAt(records, i) ==
    [j \in 1..(Len(records) - 1) |->
        IF j < i THEN records[j] ELSE records[j + 1]]

ListRemove(records, record) == RemoveAt(records, FirstIndex(record, records))

\* update_execute_result raises KeyError on self.executing_cell[kernel_id]
UpdateRaises(ec, kernel_id) == kernel_id \notin DOMAIN ec

UpdateExecuteResult(ec, result, kernel_id, cell_id, finished) ==
    [ec EXCEPT ![kernel_id] =
        [i \in DOMAIN ec[kernel_id] |->
            IF ec[kernel_id][i].cell_id = cell_id
            THEN [ec[kernel_id][i] EXCEPT
                    !.execution_count =
                        IF finished THEN result.execution_count ELSE NoCount,
                    !.output = Join(result.outputs)]
            ELSE ec[kernel_id][i]]]

\* lines 105-113 of mimic_post: the execution mode
BlockMode(flag, document_id, cell_id) ==
    IF Truthy(flag) THEN TRUE
    ELSE IF document_id = None \/ cell_id = None THEN TRUE
    ELSE FALSE

\* pre_execute on the ledger and the watcher set
PreLedger(ec, oid, kernel_id, document_id, cell_id) ==
    IF document_id # None /\ cell_id # None
    THEN [k \in DOMAIN ec \cup {kernel_id} |->
            IF k = kernel_id
            THEN Append(Records(ec, k), NewRecord(oid, document_id, cell_id))
            ELSE ec[k]]
    ELSE ec

PreWatcher(w, c, document_id, cell_id) ==
    IF document_id # None /\ cell_id # None THEN WatcherAdd(w, c) ELSE w

\* post_execute on the ledger and the watcher set
PostLedger(ec, kernel_id, document_id, cell_id) ==
    IF /\ document_id # None /\ cell_id # None
       /\ InList(GetRecord(document_id, cell_id), Records(ec, kernel_id))
    THEN [ec EXCEPT ![kernel_id] =
            ListRemove(ec[kernel_id], GetRecord(document_id, cell_id))]
    ELSE ec

PostWatcher(w, c, document_id, cell_id) ==
    IF document_id # None /\ cell_id # None THEN WatcherRemove(w, c) ELSE w

\* read_code_from_ipynb / write_output: position of the cell in nb['cells']
HasCell(nb, cell_id) == \E i \in DOMAIN nb : nb[i].id = cell_id

CellIndex(nb, cell_id) ==
    CHOOSE i \in DOMAIN nb :
        nb[i].id = cell_id /\ \A j \in 1..(i - 1) : nb[j].id # cell_id

\* lines 228-237 of write_output: does the loop set updated
UpdatedAlways(nb, cell_id, result) == TRUE

Updated(nb, cell_id, result) ==
    /\ HasCell(nb, cell_id)
    /\ \/ result.outputs # nb[CellIndex(nb, cell_id)].outputs
       \/ result.execution_count # NoCount

\* lines 228-237 of write_output: the notebook after the loop
Modify(nb, cell_id, result) ==
    IF ~HasCell(nb, cell_id) THEN nb
    ELSE [nb EXCEPT ![CellIndex(nb, cell_id)] =
            [@ EXCEPT
                !.outputs = result.outputs,
                !.execution_count =
                    IF result.execution_count # NoCount
                    THEN result.execution_count ELSE @]]

\* ----------------------------------------------------------------- Init
IdleTask ==
    [pc |-> "idle", kernel_id |-> None, document_id |-> None,
     cell_id |-> None, block_flag |-> None, block |-> FALSE,
     not_write |-> FALSE, gone |-> FALSE, oid |-> 0, get_live |-> FALSE,
     get_idx |-> 0, get_oid |-> 0, get_acc |-> << >>, get_noid |-> 0,
     get_seen |-> << >>]

NoClient ==
    [kernel_id |-> None, document_id |-> None, cell_id |-> None,
     registered |-> FALSE, not_write |-> FALSE, left |-> 0, done |-> FALSE,
     result |-> [outputs |-> << >>, execution_count |-> NoCount]]

NoWriter ==
    [pc |-> "none", document_id |-> None, cell_id |-> None,
     not_write |-> FALSE,
     result |-> [outputs |-> << >>, execution_count |-> NoCount],
     model |-> << >>]

NoResponse == [meta |-> "none", kernel_id |-> None, payload |-> << >>]

NewCell(id) == [id |-> id, outputs |-> << >>, execution_count |-> NoCount]

InitContents ==
    [p \in Paths |->
        IF p = "a.ipynb" THEN <<NewCell("c1"), NewCell("c2")>>
        ELSE <<NewCell("c1")>>]

Init ==
    /\ executing_cell = [k \in {} |-> << >>]
    /\ save_lock = {}
    /\ global_watcher = {}
    /\ contents = InitContents
    /\ task = [c \in Conns |-> IdleTask]
    /\ client = [c \in Conns |-> NoClient]
    /\ wr = [w \in Writers |-> NoWriter]
    /\ response = [c \in Conns |-> NoResponse]
    /\ nreq = 0
    /\ noid = 0
    /\ effects = {}
    /\ applied = [p \in Paths |-> [cid \in CellIds |-> << >>]]

\* -------------------------------------------------------------- helpers
Rsp(meta, kernel_id, payload) ==
    [meta |-> meta, kernel_id |-> kernel_id, payload |-> payload]

\* an exception leaves on_message: tornado logs it and aborts the socket
Raise(c, meta, kernel_id) ==
    /\ task' = [task EXCEPT ![c] = [IdleTask EXCEPT !.pc = "closed"]]
    /\ response' = [response EXCEPT ![c] = Rsp(meta, kernel_id, << >>)]

\* on_message sends the reply and returns; on a websocket the peer closed
\* write_message raises WebSocketClosedError instead
Reply(c, meta, kernel_id, payload) ==
    IF task[c].gone
    THEN Raise(c, "WebSocketClosedError", kernel_id)
    ELSE /\ task' = [task EXCEPT ![c] = IdleTask]
         /\ response' = [response EXCEPT ![c] = Rsp(meta, kernel_id, payload)]

Registers(document_id, cell_id) == document_id # None /\ cell_id # None

\* lines 146-147: is write_callback registered with the client
RegistersCallbackAlways(block, not_write) == ~block

RegistersCallback(block, not_write) == ~block /\ ~not_write

\* lines 134-148 / 155-157 and execute up to the await of client.execute:
\* register the callback (asynchronous mode, writing), pre_execute, dispatch
Dispatch(c, kernel_id, document_id, cell_id, flag, block, not_write) ==
    /\ executing_cell' =
           PreLedger(executing_cell, noid + 1, kernel_id, document_id, cell_id)
    /\ global_watcher' = PreWatcher(global_watcher, c, document_id, cell_id)
    /\ noid' = IF Registers(document_id, cell_id) THEN noid + 1 ELSE noid
    /\ client' = [client EXCEPT ![c] =
           IF RegistersCallback(block, not_write)
           THEN [NoClient EXCEPT !.kernel_id = kernel_id,
                    !.document_id = document_id, !.cell_id = cell_id,
                    !.registered = TRUE, !.not_write = not_write,
                    !.left = MaxCallbacks]
           ELSE NoClient]
    /\ task' = [task EXCEPT ![c] =
           [IdleTask EXCEPT !.pc = "kernel", !.kernel_id = kernel_id,
                !.document_id = document_id, !.cell_id = cell_id,
                !.block_flag = flag, !.block = block,
                !.not_write = not_write,
                !.oid = IF Registers(document_id, cell_id)
                        THEN noid + 1 ELSE 0]]
    /\ UNCHANGED response

\* ----------------------------------------------------------- mimic_post
\* on_message with meta 'post': mimic_post up to its first suspension
Post(c, model) ==
    LET kernel_id == model.kernel_id
        document_id == Index(model.path)
        cell_id == model.cell_id
        block == BlockMode(model.block, document_id, cell_id)
    IN
    /\ task[c].pc = "idle"
    /\ nreq < MaxRequests
    /\ nreq' = nreq + 1
    /\ UNCHANGED <<save_lock, contents, wr, applied>>
    /\ IF NoSuchKernel(kernel_id)
       THEN /\ Raise(c, "HTTPError404", kernel_id)
            /\ effects' = {}
            /\ UNCHANGED <<executing_cell, global_watcher, client, noid>>
       ELSE IF IsExecuting(executing_cell, kernel_id, document_id, cell_id)
       THEN /\ Reply(c, "executing", kernel_id, << >>)
            /\ effects' = {}
            /\ UNCHANGED <<executing_cell, global_watcher, client, noid>>
       ELSE IF model.code # None
       THEN /\ Dispatch(c, kernel_id, document_id, cell_id, model.block,
                        block, model.not_write)
            /\ effects' = {"execute"}
       ELSE IF document_id = None \/ cell_id = None
       THEN \* read_code_from_ipynb returns None: assert code is not None
            /\ Raise(c, "AssertionError", kernel_id)
            /\ effects' = {}
            /\ UNCHANGED <<executing_cell, global_watcher, client, noid>>
       ELSE \* suspended in read_code_from_ipynb
            /\ task' = [task EXCEPT ![c] =
                   [IdleTask EXCEPT !.pc = "read", !.kernel_id = kernel_id,
                        !.document_id = document_id, !.cell_id = cell_id,
                        !.block_flag = model.block, !.block = block,
                        !.not_write = model.not_write]]
            /\ effects' = {}
            /\ UNCHANGED <<executing_cell, global_watcher, client, noid,
                           response>>

\* the loop of read_code_from_ipynb reaches a cell with the id
ReadFindsFirst(nb, cell_id) == nb # << >>

ReadFinds(nb, cell_id) == HasCell(nb, cell_id)

\* read_code_from_ipynb returns (or raises 404) and mimic_post runs on to
\* the await of client.execute
ReadDone(c) ==
    LET t == task[c]
        nb == contents[GetPath(t.document_id)]
    IN
    /\ t.pc = "read"
    /\ UNCHANGED <<save_lock, contents, wr, nreq, applied>>
    /\ IF ReadFinds(nb, t.cell_id)
       THEN /\ Dispatch(c, t.kernel_id, t.document_id, t.cell_id,
                        t.block_flag, t.block, t.not_write)
            /\ effects' = {"cm.get", "execute"}
       ELSE /\ Raise(c, "HTTPError404", t.kernel_id)
            /\ effects' = {"cm.get"}
            /\ UNCHANGED <<executing_cell, global_watcher, client, noid>>

\* write_output up to the await of get_path
EnterWrite(w, document_id, cell_id, not_write, result) ==
    wr' = [wr EXCEPT ![w] =
              [pc |-> "wlock", document_id |-> document_id,
               cell_id |-> cell_id, not_write |-> not_write,
               result |-> result, model |-> << >>]]

\* client.execute returns result: post_execute, update_execute_result with
\* finished = True, then the rest of mimic_post up to its next suspension
KernelDone(c, result) ==
    LET t == task[c]
        ec1 == PostLedger(executing_cell, t.kernel_id, t.document_id,
                          t.cell_id)
    IN
    /\ t.pc = "kernel"
    /\ global_watcher' =
           PostWatcher(global_watcher, c, t.document_id, t.cell_id)
    /\ client' = [client EXCEPT ![c] =
           IF @.registered /\ @.left > 0
           THEN [@ EXCEPT !.done = TRUE, !.result = result]
           ELSE NoClient]
    /\ effects' = {}
    /\ UNCHANGED <<save_lock, contents, nreq, noid, applied>>
    /\ IF UpdateRaises(ec1, t.kernel_id)
       THEN /\ executing_cell' = ec1
            /\ Raise(c, "KeyError", t.kernel_id)
            /\ UNCHANGED wr
       ELSE /\ executing_cell' =
                   UpdateExecuteResult(ec1, result, t.kernel_id, t.cell_id,
                                       TRUE)
            /\ IF ~t.block
               THEN Reply(c, "post", t.kernel_id, << >>) /\ UNCHANGED wr
               ELSE IF t.not_write \/ ~Registers(t.document_id, t.cell_id)
               THEN Reply(c, "post_block", t.kernel_id, << >>)
                    /\ UNCHANGED wr
               ELSE /\ EnterWrite(<<c, "req">>, t.document_id, t.cell_id,
                                  t.not_write, result)
                    /\ task' = [task EXCEPT ![c].pc = "write"]
                    /\ UNCHANGED response

\* client.execute raises: the finally clause runs post_execute
KernelFail(c) ==
    LET t == task[c] IN
    /\ t.pc = "kernel"
    /\ executing_cell' =
           PostLedger(executing_cell, t.kernel_id, t.document_id, t.cell_id)
    /\ global_watcher' =
           PostWatcher(global_watcher, c, t.document_id, t.cell_id)
    /\ client' = [client EXCEPT ![c] = NoClient]
    /\ Raise(c, "KernelError", t.kernel_id)
    /\ effects' = {}
    /\ UNCHANGED <<save_lock, contents, wr, nreq, noid, applied>>

\* the client runs write_callback: get_result, update_execute_result, then
\* write_output up to its first suspension
Callback(c, result) ==
    LET cl == client[c] IN
    /\ cl.registered
    /\ cl.left > 0
    /\ wr[<<c, "cb">>].pc = "none"
    /\ result \in (IF cl.done THEN {cl.result} ELSE PartialResults)
    /\ client' = [client EXCEPT ![c] =
           IF cl.left = 1 THEN NoClient ELSE [@ EXCEPT !.left = @ - 1]]
    /\ IF UpdateRaises(executing_cell, cl.kernel_id)
       THEN UNCHANGED <<executing_cell, wr>>
       ELSE /\ executing_cell' =
                   UpdateExecuteResult(executing_cell, result, cl.kernel_id,
                                       cl.cell_id, FALSE)
            /\ EnterWrite(<<c, "cb">>, cl.document_id, cl.cell_id,
                          cl.not_write, result)
    /\ effects' = {}
    /\ UNCHANGED <<save_lock, global_watcher, contents, task, response, nreq,
                   noid, applied>>

\* --------------------------------------------------------- write_output
\* write_output returns or raises into its caller; write_callback catches
\* and logs whatever write_output raises (lines 138-144)
LeaveWriteUncaught(w, ok) ==
    /\ wr' = [wr EXCEPT ![w] = NoWriter]
    /\ IF ~ok
       THEN Raise(w[1], "SaveError", task[w[1]].kernel_id)
       ELSE IF w[2] = "req"
       THEN Reply(w[1], "post_block", task[w[1]].kernel_id, << >>)
       ELSE UNCHANGED <<task, response>>

LeaveWrite(w, ok) ==
    /\ wr' = [wr EXCEPT ![w] = NoWriter]
    /\ IF w[2] = "req"
       THEN IF ok
            THEN Reply(w[1], "post_block", task[w[1]].kernel_id, << >>)
            ELSE Raise(w[1], "SaveError", task[w[1]].kernel_id)
       ELSE UNCHANGED <<task, response>>

\* asyncio.Lock: acquire returns only while nobody holds the lock
LockIgnored == TRUE

LockFree == save_lock = {}

\* get_path returned, async with save_lock entered, cm.get returned and the
\* loop over nb['cells'] ran; suspends in cm.save when updated
Acquire(w) ==
    LET x == wr[w]
        path == GetPath(x.document_id)
        nb == contents[path]
    IN
    /\ x.pc = "wlock"
    /\ LockFree
    /\ effects' = {"cm.get"}
    /\ IF Updated(nb, x.cell_id, x.result)
       THEN /\ save_lock' = save_lock \cup {w}
            /\ wr' = [wr EXCEPT ![w].pc = "wsave",
                                ![w].model = Modify(nb, x.cell_id, x.result)]
            /\ UNCHANGED <<task, response, applied>>
       ELSE /\ save_lock' = save_lock
            /\ LeaveWrite(w, TRUE)
            /\ applied' = IF HasCell(nb, x.cell_id)
                          THEN [applied EXCEPT ![path][x.cell_id] =
                                                    <<x.result>>]
                          ELSE applied
    /\ UNCHANGED <<executing_cell, global_watcher, contents, client, nreq,
                   noid>>

\* cm.save returned: file_id_manager.save, write_message, lock released
Save(w) ==
    LET x == wr[w]
        path == GetPath(x.document_id)
    IN
    /\ x.pc = "wsave"
    /\ contents' = [contents EXCEPT ![path] = x.model]
    /\ save_lock' = save_lock \ {w}
    /\ applied' = [applied EXCEPT ![path][x.cell_id] = <<x.result>>]
    /\ IF task[w[1]].pc = "closed" \/ task[w[1]].gone
       THEN \* write_message raises WebSocketClosedError
            /\ effects' = {"cm.save", "fileid.save"}
            /\ LeaveWrite(w, FALSE)
       ELSE /\ effects' = {"cm.save", "fileid.save", "write_message"}
            /\ LeaveWrite(w, TRUE)
    /\ UNCHANGED <<executing_cell, global_watcher, client, nreq, noid>>

\* async with save_lock left by an exception: __aexit__ releases the lock
ExitHolding(lock, w) == lock

ExitOnError(lock, w) == lock \ {w}

\* cm.save raises: async with releases the lock, the error propagates
SaveFail(w) ==
    /\ wr[w].pc = "wsave"
    /\ save_lock' = ExitOnError(save_lock, w)
    /\ LeaveWrite(w, FALSE)
    /\ effects' = {}
    /\ UNCHANGED <<executing_cell, global_watcher, contents, client, nreq,
                   noid, applied>>

\* cm.save returned and file_id_manager.save raises: the document is
\* saved, async with releases the lock, the error propagates
FileIdFail(w) ==
    LET x == wr[w]
        path == GetPath(x.document_id)
    IN
    /\ x.pc = "wsave"
    /\ contents' = [contents EXCEPT ![path] = x.model]
    /\ save_lock' = ExitOnError(save_lock, w)
    /\ applied' = [applied EXCEPT ![path][x.cell_id] = <<x.result>>]
    /\ LeaveWrite(w, FALSE)
    /\ effects' = {"cm.save"}
    /\ UNCHANGED <<executing_cell, global_watcher, client, nreq, noid>>

\* ------------------------------------------------------------ mimic_get
\* the record object with identity oid, if the ledger still holds it
Held(ec, oid) ==
    {r \in UNION {{ec[k][i] : i \in DOMAIN ec[k]} : k \in DOMAIN ec} :
        r.oid = oid}

\* the response entry built from the record object the comprehension holds;
\* an object post_execute removed kept the values of a fresh record
Entry(ec, t) ==
    LET live == Held(ec, t.get_oid)
        rec == IF live = {}
               THEN GetRecord(t.document_id, t.cell_id)
               ELSE Value(CHOOSE r \in live : TRUE)
    IN [path |-> GetPath(t.document_id), cell_id |-> rec.cell_id,
        execution_count |-> rec.execution_count, output |-> rec.output]

\* mimic_get up to the first await of get_path
MimicGet(c, kernel_id) ==
    LET records == Records(executing_cell, kernel_id) IN
    /\ task[c].pc = "idle"
    /\ IF NoSuchKernel(kernel_id)
       THEN Raise(c, "HTTPError404", kernel_id)
       ELSE IF records = << >>
       THEN Reply(c, "get", kernel_id, << >>)
       ELSE /\ task' = [task EXCEPT ![c] =
                   [IdleTask EXCEPT !.pc = "get", !.kernel_id = kernel_id,
                        !.document_id = records[1].document_id,
                        !.cell_id = records[1].cell_id,
                        !.get_idx = 1, !.get_oid = records[1].oid,
                        !.get_noid = noid]]
            /\ UNCHANGED response
    /\ effects' = {}
    /\ UNCHANGED <<executing_cell, save_lock, global_watcher, contents,
                   client, wr, noid, applied>>

\* on_message with meta 'get'
Get(c, kernel_id) ==
    /\ nreq < MaxRequests
    /\ nreq' = nreq + 1
    /\ MimicGet(c, kernel_id)

\* get_path returned: the entry is completed from the held record and the
\* list iterator advances over the live list
GetStep(c) ==
    LET t == task[c]
        records == Records(executing_cell, t.kernel_id)
        acc == Append(t.get_acc, Entry(executing_cell, t))
        next == t.get_idx + 1
    IN
    /\ t.pc = "get"
    /\ IF next <= Len(records)
       THEN /\ task' = [task EXCEPT ![c].get_idx = next,
                           ![c].get_acc = acc,
                           ![c].document_id = records[next].document_id,
                           ![c].cell_id = records[next].cell_id,
                           ![c].get_oid = records[next].oid,
                           ![c].get_seen = Append(@, t.get_oid)]
            /\ UNCHANGED response
       ELSE Reply(c, "get", t.kernel_id, acc)
    /\ effects' = {}
    /\ UNCHANGED <<executing_cell, save_lock, global_watcher, contents,
                   client, wr, nreq, noid, applied>>

\* ----------------------------------------------------------------- Next
Next ==
    \/ \E c \in Conns, model \in Models : Post(c, model)
    \/ \E c \in Conns : ReadDone(c)
    \/ \E c \in Conns, result \in FinalResults : KernelDone(c, result)
    \/ \E c \in Conns : KernelFail(c)
    \/ \E c \in Conns, result \in Results : Callback(c, result)
    \/ \E w \in Writers : Acquire(w)
    \/ \E w \in Writers : Save(w)
    \/ \E w \in Writers : SaveFail(w)
    \/ \E w \in Writers : FileIdFail(w)
    \/ \E c \in Conns, kernel_id \in KernelIds : Get(c, kernel_id)
    \/ \E c \in Conns : GetStep(c)

Spec == Init /\ [][Next]_vars

\* ------------------------------------------------- sessions of a notebook
\* asynchronous posts with inline code for cells of documents on kernel k1
SessionModels ==
    {m \in Models : /\ m.kernel_id = "k1"
                    /\ m.code # None
                    /\ m.block = None
                    /\ m.path # None
                    /\ m.cell_id # None}

\* a front end polling the executing cells: gets beyond the posts
Poll(c, kernel_id) ==
    /\ nreq < MaxRequests + MaxPolls
    /\ nreq' = nreq + 1
    /\ MimicGet(c, kernel_id)

\* the peer closes the websocket while its post is with the kernel:
\* on_close only prints, the coroutine of on_message goes on
Close(c) ==
    /\ task[c].pc = "kernel"
    /\ ~task[c].gone
    /\ task' = [task EXCEPT ![c].gone = TRUE]
    /\ effects' = {}
    /\ UNCHANGED <<executing_cell, save_lock, global_watcher, contents,
                   client, wr, response, nreq, noid, applied>>

NextSession ==
    \/ \E c \in Conns, model \in SessionModels : Post(c, model)
    \/ \E c \in Conns, result \in FinalResults : KernelDone(c, result)
    \/ \E c \in Conns : KernelFail(c)
    \/ \E c \in Conns, result \in Results : Callback(c, result)
    \/ \E w \in Writers : Acquire(w)
    \/ \E w \in Writers : Save(w)
    \/ \E w \in Writers : SaveFail(w)
    \/ \E w \in Writers : FileIdFail(w)
    \/ \E c \in Conns, kernel_id \in KernelManager : Poll(c, kernel_id)
    \/ \E c \in Conns : GetStep(c)
    \/ \E c \in Conns : Close(c)

SpecSession == Init /\ [][NextSession]_vars

\* ------------------------------------------------- writes to a document
\* writing posts with inline code on kernel k1, in either mode, for the
\* cell c2 that one document holds and the other does not
WriteModels ==
    {m \in Models : /\ m.kernel_id = "k1"
                    /\ m.code # None
                    /\ m.block \in {None, "True"}
                    /\ ~m.not_write
                    /\ m.path # None
                    /\ m.cell_id = "c2"}

NextWrite ==
    \/ \E c \in Conns, model \in WriteModels : Post(c, model)
    \/ \E c \in Conns, result \in FinalResults : KernelDone(c, result)
    \/ \E c \in Conns : KernelFail(c)
    \/ \E c \in Conns, result \in Results : Callback(c, result)
    \/ \E w \in Writers : Acquire(w)
    \/ \E w \in Writers : Save(w)
    \/ \E w \in Writers : SaveFail(w)
    \/ \E w \in Writers : FileIdFail(w)

\* the operations of the document store return or raise (cm.get, cm.save,
\* file_id_manager.save), and asyncio.Lock wakes its waiters in the order
\* they came
Fairness ==
    \A w \in Writers :
        /\ WF_vars(Save(w) \/ SaveFail(w) \/ FileIdFail(w))
        /\ SF_vars(Acquire(w))

SpecWrite == Init /\ [][NextWrite]_vars /\ Fairness

\* ------------------------------------------------------------ properties
DocumentIds == {Index(p) : p \in Paths}

\* the ledger holds a record for the key (kernel_id, document_id, cell_id)
HasRecord(ec, kernel_id, document_id, cell_id) ==
    \E i \in DOMAIN Records(ec, kernel_id) :
        /\ Records(ec, kernel_id)[i].document_id = document_id
        /\ Records(ec, kernel_id)[i].cell_id = cell_id

\* a post was accepted in this step: it went on to fetch its code or to
\* the kernel instead of being answered at once
Accepted(c) == task[c].pc = "idle" /\ task'[c].pc \in {"read", "kernel"}

\* the execution of c leaves execute() in this step
LeavesExecute(c) == task[c].pc = "kernel" /\ task'[c].pc # "kernel"

\* C1: in every reachable state the ledger holds at most one record per
\* (kernelId, documentId, cellId) key.
C1_OneRecordPerKey ==
    \A k \in DOMAIN executing_cell :
        \A i, j \in DOMAIN executing_cell[k] :
            (/\ executing_cell[k][i].document_id
                    = executing_cell[k][j].document_id
             /\ executing_cell[k][i].cell_id = executing_cell[k][j].cell_id)
            => i = j

\* C2: a post for a key that has a record in the ledger is never accepted:
\* it is answered AlreadyExecuting, dispatches nothing and leaves the ledger
\* unchanged, whatever updates the record has received.
C2_DuplicateRejected ==
    [][\A c \in Conns :
          Accepted(c)
              => ~HasRecord(executing_cell, task'[c].kernel_id,
                            task'[c].document_id, task'[c].cell_id)]_vars

\* C3: isExecuting(kernelId, documentId, cellId) is true exactly when the
\* ledger holds a record with that documentId and cellId under kernelId.
C3_IsExecutingIffRecord ==
    \A k \in KernelIds, d \in DocumentIds, cid \in CellIds :
        IsExecuting(executing_cell, k, d, cid)
            <=> HasRecord(executing_cell, k, d, cid)

\* C4: when an execution that registered a record leaves the coordinator
\* (kernel success or kernel error), the ledger holds no record for its key
\* and its connection is out of the watcher-registration set.
C4_CleanupOnExit ==
    [][\A c \in Conns :
          (/\ LeavesExecute(c)
           /\ Registers(task[c].document_id, task[c].cell_id))
          => /\ ~HasRecord(executing_cell', task[c].kernel_id,
                           task[c].document_id, task[c].cell_id)
             /\ c \notin global_watcher']_vars

\* no record of kernel_id has this cell_id: update has nothing to match
NoMatch(ec, kernel_id, cell_id) ==
    \A i \in DOMAIN Records(ec, kernel_id) :
        Records(ec, kernel_id)[i].cell_id # cell_id

\* C5: update with no matching record is a no-op that never raises, at the
\* post-completion update in execute and in the write-back callback.
C5_UpdateAbsentNoop ==
    [][\A c \in Conns :
          /\ (/\ LeavesExecute(c)
              /\ response'[c].meta # "KernelError"
              /\ NoMatch(PostLedger(executing_cell, task[c].kernel_id,
                                    task[c].document_id, task[c].cell_id),
                         task[c].kernel_id, task[c].cell_id))
             => /\ response'[c].meta # "KeyError"
                /\ executing_cell' =
                       PostLedger(executing_cell, task[c].kernel_id,
                                  task[c].document_id, task[c].cell_id)
          /\ (/\ client[c].registered
              /\ client'[c] # client[c]
              /\ task'[c] = task[c]
              /\ NoMatch(executing_cell, client[c].kernel_id,
                         client[c].cell_id))
             => /\ executing_cell' = executing_cell
                /\ wr'[<<c, "cb">>].pc = "wlock"]_vars

\* the notebook cell holds the result: its outputs, and its execution count
\* when the result carries one
Holds(nb, cell_id, result) ==
    /\ HasCell(nb, cell_id)
    /\ nb[CellIndex(nb, cell_id)].outputs = result.outputs
    /\ result.execution_count # NoCount
          => nb[CellIndex(nb, cell_id)].execution_count
                 = result.execution_count

\* C6: write_output runs its load, modify, save inside the lock: at most
\* one writer is between load and save, and the document holds the last
\* result applied to every cell (no completion's save reverts another's).
C6_NoLostUpdate ==
    /\ Cardinality(save_lock) <= 1
    /\ \A w \in Writers : wr[w].pc = "wsave" <=> w \in save_lock
    /\ \A p \in Paths, cid \in CellIds :
          applied[p][cid] # << >>
              => Holds(contents[p], cid, applied[p][cid][1])

C6_TwoCellsWritten ==
    /\ applied["a.ipynb"]["c1"] # << >>
    /\ applied["a.ipynb"]["c2"] # << >>
    /\ contents["a.ipynb"][1].outputs = <<"x">>
    /\ contents["a.ipynb"][2].outputs = <<"x">>

\* C7: applying to a cell the result that was last applied to it saves
\* nothing: write_output leaves without reaching cm.save.
C7_SecondApplySavesNothing ==
    [][\A w \in Writers :
          (/\ wr[w].pc = "wlock"
           /\ wr'[w].pc # "wlock"
           /\ applied[GetPath(wr[w].document_id)][wr[w].cell_id]
                  = <<wr[w].result>>)
          => wr'[w].pc # "wsave"]_vars

InFlight(c) == task[c].pc \in {"read", "kernel", "write"}

\* C8: an explicit block flag (true or false) decides the mode; without one
\* the mode is synchronous exactly when the document id or cell id is
\* missing.
C8_ExplicitBlockWins ==
    \A c \in Conns :
        InFlight(c) =>
            task[c].block =
                (IF task[c].block_flag # "None"
                 THEN task[c].block_flag = "True"
                 ELSE ~Registers(task[c].document_id, task[c].cell_id))

\* C9: a block=true request with inline code and neither document id nor
\* cell id, whose kernel run returns, is answered post_block without error,
\* touches no document and leaves the ledger as it was.
C9_SyncNoDocument ==
    [][\A c \in Conns :
          (/\ LeavesExecute(c)
           /\ task[c].block_flag = "True"
           /\ task[c].document_id = None
           /\ task[c].cell_id = None
           /\ response'[c].meta # "KernelError")
          => /\ response'[c].meta = "post_block"
             /\ effects' = {}
             /\ UNCHANGED <<contents, executing_cell>>]_vars

\* C10: a get or post naming a kernel that does not exist is answered 404
\* in the step that receives it, with the ledger, the watcher set, the
\* clients, the writers and the documents untouched; no request for such a
\* kernel is ever in flight.
C10_UnknownKernel404 ==
    /\ [](\A c \in Conns :
             /\ task[c].kernel_id \in KernelManager \cup {None}
             /\ client[c].kernel_id \in KernelManager \cup {None})
    /\ [](DOMAIN executing_cell \subseteq KernelManager)
    /\ [][\A c \in Conns :
             (/\ response'[c] # response[c]
              /\ response'[c].kernel_id \notin KernelManager)
             => /\ response'[c].meta = "HTTPError404"
                /\ task[c].pc = "idle"
                /\ effects' = {}
                /\ UNCHANGED <<executing_cell, global_watcher, contents,
                               client, wr, save_lock, applied, noid>>]_vars

C10_Got404WhileExecuting ==
    \E c \in Conns :
        /\ response[c].meta = "HTTPError404"
        /\ response[c].kernel_id = "k0"
        /\ \E k \in DOMAIN executing_cell : executing_cell[k] # << >>

\* the post of c waits in read_code_from_ipynb for a cell its document
\* does not hold, and the read ends in this step
ReadMisses(c) ==
    /\ task[c].pc = "read"
    /\ ~HasCell(contents[GetPath(task[c].document_id)], task[c].cell_id)
    /\ task'[c] # task[c]

\* C11 (as stated): after a post without inline code failed because its
\* cell is absent from the document, the ledger holds no record for the
\* key.
C11_NoRecordAfter404 ==
    [][\A c \in Conns :
          ReadMisses(c)
          => ~HasRecord(executing_cell', task[c].kernel_id,
                        task[c].document_id, task[c].cell_id)]_vars

\* C11 (amended): a post without inline code whose cell is absent from
\* the document is answered 404 and leaves nothing behind: the ledger, the
\* clients, the writers and the documents are as they were, the connection
\* is not in the watcher set and nothing was sent to the kernel. A record
\* another request registered for the same key stays.
C11_CellAbsent404 ==
    [][\A c \in Conns :
          ReadMisses(c)
          => /\ response'[c].meta = "HTTPError404"
             /\ task'[c].pc = "closed"
             /\ "execute" \notin effects'
             /\ c \notin global_watcher'
             /\ UNCHANGED <<executing_cell, global_watcher, client, wr,
                            contents, save_lock, noid>>]_vars

C11_CellAbsentWhileExecuting ==
    \E c \in Conns :
        /\ response[c].meta = "HTTPError404"
        /\ response[c].kernel_id \in KernelManager
        /\ effects = {"cm.get"}
        /\ \E k \in DOMAIN executing_cell : executing_cell[k] # << >>

\* write_output of w passes the lock in this step and its document holds
\* no cell with the id
WriteMisses(w) ==
    /\ wr[w].pc = "wlock"
    /\ wr'[w].pc # "wlock"
    /\ ~HasCell(contents[GetPath(wr[w].document_id)], wr[w].cell_id)

\* C12: write_output for a cell id the document does not hold is a no-op:
\* it returns normally with nothing saved, no notification sent, the
\* documents as they were and the lock released.
C12_AbsentCellNoop ==
    [][\A w \in Writers :
          WriteMisses(w)
          => /\ wr'[w] = NoWriter
             /\ effects' = {"cm.get"}
             /\ save_lock' = {}
             /\ UNCHANGED <<contents, applied, executing_cell>>
             /\ IF w[2] = "req"
                THEN /\ response'[w[1]].meta = "post_block"
                     /\ task'[w[1]].pc = "idle"
                ELSE UNCHANGED <<task, response>>]_vars

\* a synchronous post was answered after a write_output that only read the
\* document: its final result carries a count, so the cell was absent
C12_SyncWriteFoundNoCell ==
    \E c \in Conns :
        /\ response[c].meta = "post_block"
        /\ effects = {"cm.get"}
        /\ contents = InitContents

\* C14: an execution posted with not_write set never writes to the
\* document store: no write_output runs for it, from the request or from a
\* callback, its completion saves nothing and sends no notification, and
\* every save and notification belongs to a writer of an execution posted
\* without not_write.
C14_NotWriteNeverWrites ==
    /\ [](\A w \in Writers : wr[w].pc # "none" => ~wr[w].not_write)
    /\ [](\A c \in Conns :
             /\ task[c].pc = "write" => ~task[c].not_write
             /\ (task[c].pc = "kernel" /\ task[c].not_write)
                    => ~client[c].registered)
    /\ [][\A c \in Conns :
             (LeavesExecute(c) /\ task[c].not_write)
             => /\ effects' = {}
                /\ UNCHANGED <<contents, wr, applied, save_lock>>]_vars
    /\ [][(\/ contents' # contents
           \/ effects' \cap {"cm.save", "fileid.save", "write_message"} # {})
          => \E w \in Writers :
                 /\ wr[w].pc = "wsave"
                 /\ ~wr[w].not_write
                 /\ wr'[w] = NoWriter]_vars

\* a not_write execution is with the kernel on one connection after a
\* writing execution changed a document
C14_NotWriteInFlight ==
    \E c \in Conns :
        /\ task[c].pc = "kernel"
        /\ task[c].not_write
        /\ Registers(task[c].document_id, task[c].cell_id)
        /\ contents # InitContents

\* C15: while a synchronous post with document id and cell id is writing
\* its result to the document, its record is still in the ledger (it is
\* removed only after the write), so a post for the same key is answered
\* 'executing' during the write.
C15_RecordHeldDuringWrite ==
    \A c \in Conns :
        task[c].pc = "write"
        => /\ HasRecord(executing_cell, task[c].kernel_id,
                        task[c].document_id, task[c].cell_id)
           /\ IsExecuting(executing_cell, task[c].kernel_id,
                          task[c].document_id, task[c].cell_id)

\* write_output called by the callback of w[1] fails in this step: it was
\* saving and ends without having sent its notification
CallbackWriteFails(w) ==
    /\ w[2] = "cb"
    /\ wr[w].pc = "wsave"
    /\ wr'[w].pc = "none"
    /\ "write_message" \notin effects'

\* C16: a failure of the write-back inside the asynchronous callback is
\* isolated: no connection is closed and no reply changes, the lock is
\* free afterwards, and the ledger, the watcher set, the clients and the
\* other writers are as they were.
C16_CallbackFailureIsolated ==
    [][\A w \in Writers :
          CallbackWriteFails(w)
          => /\ UNCHANGED <<task, response, executing_cell, global_watcher,
                            client>>
             /\ save_lock' = {}
             /\ \A v \in Writers \ {w} : wr'[v] = wr[v]]_vars

\* the callback of a closed connection saved the document and failed in
\* write_message while another execution was with the kernel
C16_CallbackFailedOthersRunning ==
    /\ effects = {"cm.save", "fileid.save"}
    /\ \E c \in Conns : task[c].pc = "closed" /\ wr[<<c, "cb">>].pc = "none"
    /\ \E c \in Conns : task[c].pc = "kernel"
    /\ \E k \in DOMAIN executing_cell : executing_cell[k] # << >>

\* the key of the execution of c whose result is stored in the ledger in
\* this step (it leaves execute() or its callback runs), << >> if none
ArrivingKey(c) ==
    IF LeavesExecute(c)
    THEN <<task[c].kernel_id, task[c].document_id, task[c].cell_id>>
    ELSE IF client[c].registered /\ client'[c] # client[c]
            /\ task'[c] = task[c]
    THEN <<client[c].kernel_id, client[c].document_id, client[c].cell_id>>
    ELSE << >>

\* C19: the result of an execution for (k, d1, c) changes only the ledger
\* record of that key: when it completes or streams output, every record
\* of another key, such as (k, d2, c) of a document sharing the cell id,
\* keeps its output and its execution_count.
C19_UpdateOnlyOwnRecord ==
    [][\A c \in Conns :
          (ArrivingKey(c) # << >> /\ ArrivingKey(c)[2] # None)
          => \A k \in DOMAIN executing_cell :
                 \A i \in DOMAIN executing_cell[k] :
                     \A j \in DOMAIN executing_cell'[k] :
                         (/\ executing_cell'[k][j].oid
                                 = executing_cell[k][i].oid
                          /\ <<k, executing_cell[k][i].document_id,
                                 executing_cell[k][i].cell_id>>
                                 # ArrivingKey(c))
                         => executing_cell'[k][j] = executing_cell[k][i]]_vars

\* mimic_get of c sends its response in this step
GetReplies(c) == task[c].pc = "get" /\ task'[c].pc = "idle"

\* C13: while an asynchronous post for (k1, doc, c1) accepted on one
\* connection is with the kernel, a get for k1 on another connection that
\* began after the post was accepted lists c1 of that document with
\* execution_count null.
C13_GetListsInFlight ==
    [][\A c, c2 \in Conns :
          (/\ GetReplies(c)
           /\ task[c2].pc = "kernel"
           /\ ~task[c2].block
           /\ task[c2].oid \in 1..task[c].get_noid
           /\ task[c2].kernel_id = task[c].kernel_id)
          => \E i \in DOMAIN response'[c].payload :
                 /\ response'[c].payload[i].path
                        = GetPath(task[c2].document_id)
                 /\ response'[c].payload[i].cell_id = task[c2].cell_id
                 /\ response'[c].payload[i].execution_count = NoCount]_vars

\* the record objects the comprehension of mimic_get has read when it
\* sends its response
Visited(c) == Append(task[c].get_seen, task[c].get_oid)

\* C18: a get returns a consistent snapshot: every record that is in the
\* ledger of the kernel from the start of the get to its response appears
\* in the response exactly once.
C18_GetSnapshot ==
    [][\A c \in Conns :
          GetReplies(c)
          => \A i \in DOMAIN Records(executing_cell, task[c].kernel_id) :
                 LET rec == Records(executing_cell, task[c].kernel_id)[i] IN
                 rec.oid <= task[c].get_noid
                 => Cardinality({j \in DOMAIN Visited(c) :
                                    Visited(c)[j] = rec.oid}) = 1]_vars

\* C17: closing the connection of an accepted asynchronous post does not
\* cancel it: when the kernel run ends, the ledger holds no record for its
\* key any more.
C17_ClosedStillCleansUp ==
    [][\A c \in Conns :
          (LeavesExecute(c) /\ task[c].gone /\ ~task[c].block)
          => ~HasRecord(executing_cell', task[c].kernel_id,
                        task[c].document_id, task[c].cell_id)]_vars

\* C20 (as stated): the lock is never held while a kernel execution is in
\* progress.
C20_LockNotHeldDuringExecution ==
    save_lock # {} => \A c \in Conns : task[c].pc # "kernel"

\* C20 (amended): the lock never stays held. Its holder is a write_output
\* between cm.get and cm.save, at most one at a time, and never a request
\* that is waiting for the kernel; every write_output that holds the lock
\* releases it, and every write_output waiting for the lock gets past it.
C20_LockReleased ==
    /\ [](/\ Cardinality(save_lock) <= 1
          /\ \A w \in save_lock :
                 /\ wr[w].pc = "wsave"
                 /\ w[2] = "req" => task[w[1]].pc = "write")
    /\ \A w \in Writers : (w \in save_lock) ~> (w \notin save_lock)
    /\ \A w \in Writers : (wr[w].pc = "wlock") ~> (wr[w].pc # "wlock")

\* one write_output holds the lock while another waits for it and a
\* kernel execution is in progress
C20_WaiterWhileHeld ==
    /\ save_lock # {}
    /\ \E w \in Writers : wr[w].pc = "wlock"
    /\ \E c \in Conns : task[c].pc = "kernel"

====
